---- MODULE Spec2Model ----
(***************************************************************************)
(* A model of scripts/post_daily.py: the weekly seminar reminder.          *)
(*                                                                         *)
(* Text is a sequence of characters, each character a one-element string.  *)
(* The source's Japanese literals are written in ASCII transliteration:    *)
(* the characters of the seminar label are "ze" and "mi", the header and   *)
(* weekday names are spelled in romaji.  None is the empty tuple and a     *)
(* present optional value v is <<v>>.                                      *)
(***************************************************************************)
EXTENDS Integers, Sequences, FiniteSets, TLC

VARIABLES
    pc,          \* position of main(): which call comes next
    clock,       \* the system clock: [ord |-> UTC day ordinal, hour |-> UTC hour]
    today,       \* main's today (local date and hour of the aware datetime)
    monday,      \* main's monday
    week_dates,  \* main's week_dates
    sheet,       \* what the spreadsheet holds: the records a successful load returns
    records,     \* main's records
    events,      \* main's events
    text,        \* main's text: the digest, a sequence of lines
    console,     \* everything print() has written, in order
    calls,       \* the calls main has made, in order
    raised,      \* the exception that left main, or None
    dateutil_out,\* what dateutil's parser returns when asked: None (it raised), or <<date>>
    parse_in,    \* parse_date_str: its arguments
    parse_out    \* parse_date_str: its result (None, or <<date>>)

vars == <<pc, clock, today, monday, week_dates, sheet, records, events, text,
          console, calls, raised, dateutil_out, parse_in, parse_out>>

None == <<>>
Some(v) == <<v>>

----------------------------------------------------------------------------
(* Bounds of the model.                                                    *)

\* first UTC day of the clock range: ordinal 738870 is 2023-12-16
FirstClockDay == 738870
\* number of consecutive UTC days the clock ranges over
ClockDays == 420
\* most rows a sheet holds
MaxRows == 2

----------------------------------------------------------------------------
(* datetime.date: the proleptic Gregorian calendar, as CPython computes it *)

Date(y, m, d) == [year |-> y, month |-> m, day |-> d]

is_leap(y) == y % 4 = 0 /\ (y % 100 # 0 \/ y % 400 = 0)

days_in_month(y, m) ==
    IF m = 2 THEN (IF is_leap(y) THEN 29 ELSE 28)
    ELSE IF m \in {4, 6, 9, 11} THEN 30 ELSE 31

RECURSIVE days_before_month(_, _)
days_before_month(y, m) ==
    IF m <= 1 THEN 0 ELSE days_before_month(y, m - 1) + days_in_month(y, m - 1)

days_before_year(y) ==
    (y - 1) * 365 + ((y - 1) \div 4) - ((y - 1) \div 100) + ((y - 1) \div 400)

\* datetime.date(y, m, d) raises ValueError unless this holds
valid_date(y, m, d) ==
    /\ y \in 1..9999
    /\ m \in 1..12
    /\ d >= 1
    /\ d <= days_in_month(y, m)

toordinal(dt) == days_before_year(dt.year) + days_before_month(dt.year, dt.month) + dt.day

RECURSIVE month_of(_, _, _)
\* the month holding the n-th day (0-based) of year y, searched from month m
month_of(y, n, m) ==
    IF n < days_before_month(y, m) + days_in_month(y, m) THEN m ELSE month_of(y, n, m + 1)

fromordinal(n) ==
    LET n0   == n - 1
        n400 == n0 \div 146097
        r400 == n0 % 146097
        n100 == r400 \div 36524
        r100 == r400 % 36524
        n4   == r100 \div 1461
        r4   == r100 % 1461
        n1   == r4 \div 365
        r1   == r4 % 365
        y    == n400 * 400 + 1 + n100 * 100 + n4 * 4 + n1
    IN  IF n1 = 4 \/ n100 = 4 THEN Date(y - 1, 12, 31)
        ELSE LET m == month_of(y, r1, 1)
             IN  Date(y, m, r1 - days_before_month(y, m) + 1)

\* date + datetime.timedelta(days=n)
add_days(dt, n) == fromordinal(toordinal(dt) + n)

weekday(dt) == (toordinal(dt) + 6) % 7
isoweekday(dt) == weekday(dt) + 1

\* date < date, date == date: by (year, month, day)
date_lt(a, b) ==
    \/ a.year < b.year
    \/ a.year = b.year /\ a.month < b.month
    \/ a.year = b.year /\ a.month = b.month /\ a.day < b.day

date_le(a, b) == a = b \/ date_lt(a, b)

\* min() of a non-empty set of dates
min_date(S) == CHOOSE a \in S : \A b \in S : date_le(a, b)

----------------------------------------------------------------------------
(* The week window                                                         *)

\* Asia/Tokyo is UTC+9 the whole year
JstOffsetHours == 9

\* datetime.datetime.now(tz=jst): the clock's instant on the Tokyo wall clock
get_today_jst(c) ==
    LET h == c.hour + JstOffsetHours
    IN  IF h >= 24 THEN [date |-> fromordinal(c.ord + 1), hour |-> h - 24]
        ELSE [date |-> fromordinal(c.ord), hour |-> h]

delta_days_bad(t) == isoweekday(t.date)
delta_days(t) == isoweekday(t.date) - 1

\* today - timedelta(days=delta_days) keeps the wall-clock time; .date() drops it
get_monday_date(t) ==
    LET monday_dt == [date |-> add_days(t.date, 0 - delta_days(t)), hour |-> t.hour]
    IN  monday_dt.date

week_range == 0..6

build_week_dates(monday_date) == { add_days(monday_date, i) : i \in week_range }

----------------------------------------------------------------------------
(* Text                                                                    *)

Digits == <<"0", "1", "2", "3", "4", "5", "6", "7", "8", "9">>

is_digit(c) == \E i \in 1..10 : Digits[i] = c

\* str.isspace: the space, the tab and the ideographic space "wsp"
is_space(c) == c \in {" ", "tab", "wsp"}

digit_value(c) == (CHOOSE i \in 1..10 : Digits[i] = c) - 1

RECURSIVE int_of(_)
\* int() of a run of decimal digits
int_of(s) ==
    IF s = <<>> THEN 0
    ELSE int_of(SubSeq(s, 1, Len(s) - 1)) * 10 + digit_value(s[Len(s)])

\* the decimal text of a number below 10000, as an f-string writes it
str_of(n) ==
    LET ch(k) == Digits[k + 1]
    IN  IF n < 10 THEN <<ch(n)>>
        ELSE IF n < 100 THEN <<ch(n \div 10), ch(n % 10)>>
        ELSE IF n < 1000 THEN <<ch(n \div 100), ch((n \div 10) % 10), ch(n % 10)>>
        ELSE <<ch(n \div 1000), ch((n \div 100) % 10), ch((n \div 10) % 10), ch(n % 10)>>

RECURSIVE lstrip(_)
lstrip(s) == IF s # <<>> /\ is_space(Head(s)) THEN lstrip(Tail(s)) ELSE s

RECURSIVE rstrip(_)
rstrip(s) ==
    IF s # <<>> /\ is_space(s[Len(s)]) THEN rstrip(SubSeq(s, 1, Len(s) - 1)) ELSE s

\* str.strip()
strip(s) == rstrip(lstrip(s))

\* ord() of the characters the model uses
ord(c) ==
    CASE c = "tab" -> 9
      [] c = " " -> 32
      [] c = "-" -> 45
      [] c = "/" -> 47
      [] is_digit(c) -> 48 + digit_value(c)
      [] c = ":" -> 58
      [] c = "A" -> 65
      [] c = "B" -> 66
      [] c = "X" -> 88
      [] c = "x" -> 120
      [] c = "wsp" -> 12288
      [] c = "ze" -> 12476
      [] c = "mi" -> 12511

RECURSIVE str_lt(_, _)
\* str < str: by code point, a proper prefix first
str_lt(a, b) ==
    IF b = <<>> THEN FALSE
    ELSE IF a = <<>> THEN TRUE
    ELSE IF ord(Head(a)) # ord(Head(b)) THEN ord(Head(a)) < ord(Head(b))
    ELSE str_lt(Tail(a), Tail(b))

----------------------------------------------------------------------------
(* parse_date_str                                                          *)

\* one or two digits at the head of s, as \d{1,2} takes them (greedy)
digits12(s) ==
    IF s = <<>> \/ ~is_digit(s[1]) THEN <<>>
    ELSE IF Len(s) >= 2 /\ is_digit(s[2]) THEN SubSeq(s, 1, 2)
    ELSE SubSeq(s, 1, 1)

is_sep(c) == c \in {"/", "-"}

\* re.match(r'^\s*(\d{1,2})[/-](\d{1,2})(?:[/-]\d{2,4})?', s): None, or
\* <<group(1), group(2)>>.  The pattern is not anchored at its end, and its
\* optional year group decides nothing about the two groups.
re_match_bad(s) ==
    LET t  == lstrip(s)
        g1 == digits12(t)
        r1 == SubSeq(t, Len(g1) + 1, Len(t))
        g2 == IF r1 = <<>> THEN <<>> ELSE digits12(Tail(r1))
    IN  IF g1 = <<>> \/ r1 = <<>> \/ ~is_sep(r1[1]) \/ g2 = <<>> THEN None
        ELSE Some(<<g2, g1>>)
re_match(s) ==
    LET t  == lstrip(s)
        g1 == digits12(t)
        r1 == SubSeq(t, Len(g1) + 1, Len(t))
        g2 == IF r1 = <<>> THEN <<>> ELSE digits12(Tail(r1))
    IN  IF g1 = <<>> \/ r1 = <<>> \/ ~is_sep(r1[1]) \/ g2 = <<>> THEN None
        ELSE Some(<<g1, g2>>)

\* fallback is what dateparser.parse(date_str, default=...) gives: None when it
\* raises ValueError or OverflowError, else <<date>>
parse_date_str(date_str, reference_year, fallback) ==
    IF date_str = <<>> THEN None
    ELSE LET m == re_match(date_str)
         IN  IF m # None /\ valid_date(reference_year, int_of(m[1][1]), int_of(m[1][2]))
             THEN Some(Date(reference_year, int_of(m[1][1]), int_of(m[1][2])))
             ELSE fallback

----------------------------------------------------------------------------
(* find_week_events                                                        *)

\* The sheet's header names.  The Japanese ones in romaji: hizuke (date),
\* tesuto_jikan (test time), yotei_taipu, taipu, shubetsu (type), naiyou
\* (content), tantou (person), kesseki_yotei, kessekisha, kesseki (absent).
date_keys    == <<"hizuke", "date", "Date">>
time_keys    == <<"tesuto_jikan", "time", "Time">>
type_keys    == <<"yotei_taipu", "taipu", "shubetsu", "type", "Type">>
content_keys == <<"naiyou", "content">>
person_keys  == <<"tantou", "person">>
absent_keys  == <<"kesseki_yotei", "kessekisha", "kesseki", "absent", "Absentees">>

RECURSIVE first_of(_, _)
\* row.get(k1) or row.get(k2) or ... or '': the first cell that is present
\* and not empty
first_of(row, keys) ==
    IF keys = <<>> THEN <<>>
    ELSE IF Head(keys) \in DOMAIN row /\ row[Head(keys)] # <<>> THEN row[Head(keys)]
    ELSE first_of(row, Tail(keys))

\* the seminar label and the label every other row gets
Zemi == <<"ze", "mi">>
JuuyouNittei == <<"juu", "you", "nit", "tei">>

type_str_of(row) == strip(first_of(row, type_keys))

ev_type_bad(type_str) == IF type_str = <<>> THEN JuuyouNittei ELSE Zemi
ev_type_of(type_str) == IF type_str = Zemi THEN Zemi ELSE JuuyouNittei

keep_event_bad(ev) == TRUE
\* a seminar is added only with a time; anything else is always added
keep_event(ev) == IF ev.type = Zemi THEN ev.time # None ELSE TRUE

in_week(d, dates) == d \in dates

\* one turn of the loop over the records: the events the row adds (none or one)
row_events(row, dates, reference_year, fallback) ==
    LET date_str   == first_of(row, date_keys)
        time_str   == first_of(row, time_keys)
        type_str   == type_str_of(row)
        content    == first_of(row, content_keys)
        person     == first_of(row, person_keys)
        absent_raw == strip(first_of(row, absent_keys))
        d          == parse_date_str(strip(date_str), reference_year, fallback)
    IN  IF date_str = <<>> THEN <<>>
        ELSE IF d = None THEN <<>>
        ELSE IF ~in_week(d[1], dates) THEN <<>>
        ELSE LET ev == [date           |-> d[1],
                        time           |-> IF time_str # <<>> THEN Some(time_str) ELSE None,
                        content        |-> content,
                        person         |-> person,
                        row            |-> row,
                        type           |-> ev_type_of(type_str),
                        type_raw       |-> type_str,
                        absent_raw     |-> absent_raw,
                        absent_display |-> IF absent_raw # <<>> THEN Some(absent_raw)
                                           ELSE None]
             IN  IF keep_event(ev) THEN <<ev>> ELSE <<>>

append_events_bad(evs, more) == more \o evs
\* events.append(ev), for the events a row adds
append_events(evs, more) == evs \o more

RECURSIVE events_of(_, _, _, _)
events_of(recs, dates, reference_year, fallback) ==
    IF recs = <<>> THEN <<>>
    ELSE append_events(
             events_of(SubSeq(recs, 1, Len(recs) - 1), dates, reference_year, fallback),
             row_events(recs[Len(recs)], dates, reference_year, fallback))

find_week_events(recs, dates, fallback) ==
    events_of(recs, dates, min_date(dates).year, fallback)

----------------------------------------------------------------------------
(* format_schedule                                                         *)

\* A line of the digest: the f-string that wrote it (kind), and what filled it:
\* nums the numbers, wd the weekday name, s the text.
Line(kind, nums, wd, s) == [kind |-> kind, nums |-> nums, wd |-> wd, s |-> s]

\* weekday_map: getsu, ka, sui, moku, kin, do, nichi (Monday .. Sunday)
weekday_map == <<"getsu", "ka", "sui", "moku", "kin", "do", "nichi">>

\* the usual time of the seminar
UsualTime == <<"1", "3", ":", "0", "0", "-", "1", "4", ":", "3", "0">>

time_key_bad(ev) == <<>>
\* ev.get('time') or ''
time_key(ev) == IF ev.time = None THEN <<>> ELSE ev.time[1]

\* (date, time or '') < (date, time or '')
key_lt(a, b) ==
    \/ date_lt(a.date, b.date)
    \/ a.date = b.date /\ str_lt(time_key(a), time_key(b))

\* whether x, met later in the input than y, is placed before y
goes_before(x, y) == key_lt(x, y)

RECURSIVE insert_sorted(_, _)
insert_sorted(x, L) ==
    IF L = <<>> THEN <<x>>
    ELSE IF goes_before(x, Head(L)) THEN <<x>> \o L
    ELSE <<Head(L)>> \o insert_sorted(x, Tail(L))

RECURSIVE sorted_events(_)
\* sorted(events, key=...): stable
sorted_events(evs) ==
    IF evs = <<>> THEN <<>>
    ELSE insert_sorted(evs[Len(evs)], sorted_events(SubSeq(evs, 1, Len(evs) - 1)))

summary_line(ev) ==
    Line("event", <<ev.date.month, ev.date.day>>, weekday_map[weekday(ev.date) + 1], ev.content)

warns_bad(ev) == ev.time # None
\* the warning is written for a time that is not the usual one
warns(ev) == ev.time # None /\ ev.time[1] # UsualTime

zemi_lines(ev) ==
    <<summary_line(ev)>>
    \o (IF ev.person # <<>> THEN <<Line("person", <<>>, "", ev.person)>> ELSE <<>>)
    \o (IF ev.time # None THEN <<Line("time", <<>>, "", ev.time[1])>> ELSE <<>>)
    \o (IF ev.absent_display # None
        THEN <<Line("absent", <<>>, "", ev.absent_display[1])>>
        ELSE <<Line("absent_none", <<>>, "", <<>>)>>)
    \o (IF warns(ev) THEN <<Line("warning", <<>>, "", <<>>)>> ELSE <<>>)

\* the lines one event adds
event_lines(ev) == IF ev.type = Zemi THEN zemi_lines(ev) ELSE <<summary_line(ev)>>

RECURSIVE all_lines(_)
all_lines(evs) ==
    IF evs = <<>> THEN <<>> ELSE event_lines(Head(evs)) \o all_lines(Tail(evs))

header_line(monday_date) ==
    LET end == add_days(monday_date, 6)
    IN  Line("header", <<monday_date.month, monday_date.day, end.month, end.day>>, "", <<>>)

\* the digest is "\n".join(lines): the model keeps the lines
format_schedule(evs, monday_date, dates) ==
    IF evs = <<>> THEN <<header_line(monday_date), Line("no_events", <<>>, "", <<>>)>>
    ELSE <<header_line(monday_date)>> \o all_lines(sorted_events(evs))

----------------------------------------------------------------------------
(* main and post_to_slack, call by call                                    *)

Out(what, lines) == [what |-> what, lines |-> lines]

\* line 259
GetToday ==
    /\ pc = "start"
    /\ today' = get_today_jst(clock)
    /\ pc' = "monday"
    /\ UNCHANGED <<clock, monday, week_dates, sheet, records, events, text, console,
                   calls, raised, dateutil_out, parse_in, parse_out>>

\* line 260
GetMonday ==
    /\ pc = "monday"
    /\ monday' = get_monday_date(today)
    /\ pc' = "week"
    /\ UNCHANGED <<clock, today, week_dates, sheet, records, events, text, console,
                   calls, raised, dateutil_out, parse_in, parse_out>>

\* line 261
BuildWeek ==
    /\ pc = "week"
    /\ week_dates' = build_week_dates(monday)
    /\ pc' = "load"
    /\ UNCHANGED <<clock, today, monday, sheet, records, events, text, console,
                   calls, raised, dateutil_out, parse_in, parse_out>>

\* what load_public_sheet_records raises, by the line that raises it
LoadErrors ==
    {"env_missing", "build_failed", "meta_failed", "no_sheets", "sheet_index_not_int",
     "sheet_index_not_found", "values_failed"}

\* lines 267-268: the load returns the sheet's records
LoadOk ==
    /\ pc = "load"
    /\ records' = sheet
    /\ calls' = Append(calls, "load_public_sheet_records")
    /\ pc' = "find"
    /\ UNCHANGED <<clock, today, monday, week_dates, sheet, events, text, console,
                   raised, dateutil_out, parse_in, parse_out>>

after_load_error_bad == "find"
\* return
after_load_error == "done"

\* lines 267-271: the load raises; main prints the cause and returns
LoadFail ==
    /\ pc = "load"
    /\ \E e \in LoadErrors :
           console' = Append(console, Out("load_failed", <<e>>))
    /\ calls' = Append(calls, "load_public_sheet_records")
    /\ pc' = after_load_error
    /\ UNCHANGED <<clock, today, monday, week_dates, sheet, records, events, text,
                   raised, dateutil_out, parse_in, parse_out>>

\* line 273
FindWeekEvents ==
    /\ pc = "find"
    /\ events' = find_week_events(records, week_dates, dateutil_out)
    /\ calls' = Append(calls, "find_week_events")
    /\ pc' = "format"
    /\ UNCHANGED <<clock, today, monday, week_dates, sheet, records, text, console,
                   raised, dateutil_out, parse_in, parse_out>>

\* lines 274-275: the digest is computed and printed
FormatSchedule ==
    /\ pc = "format"
    /\ text' = Some(format_schedule(events, monday, week_dates))
    /\ console' = Append(console, Out("text", format_schedule(events, monday, week_dates)))
    /\ calls' = Append(calls, "format_schedule")
    /\ pc' = "post"
    /\ UNCHANGED <<clock, today, monday, week_dates, sheet, records, events,
                   raised, dateutil_out, parse_in, parse_out>>

\* lines 242-248: no token or no channel
PostNotConfigured ==
    /\ pc = "post"
    /\ console' = console \o <<Out("posting", <<>>), Out("not_configured", <<>>),
                               Out("text", text[1])>>
    /\ calls' = Append(calls, "post_to_slack")
    /\ pc' = "done"
    /\ UNCHANGED <<clock, today, monday, week_dates, sheet, records, events, text,
                   raised, dateutil_out, parse_in, parse_out>>

\* lines 249-252: the message is posted
PostOk ==
    /\ pc = "post"
    /\ console' = console \o <<Out("posting", <<>>), Out("posted", <<>>)>>
    /\ calls' = calls \o <<"post_to_slack", "chat_postMessage">>
    /\ pc' = "done"
    /\ UNCHANGED <<clock, today, monday, week_dates, sheet, records, events, text,
                   raised, dateutil_out, parse_in, parse_out>>

\* lines 253-256: chat_postMessage raises SlackApiError
PostSlackApiError ==
    /\ pc = "post"
    /\ console' = console \o <<Out("posting", <<>>), Out("post_failed", <<>>),
                               Out("result", <<>>), Out("text", text[1])>>
    /\ calls' = calls \o <<"post_to_slack", "chat_postMessage">>
    /\ pc' = "done"
    /\ UNCHANGED <<clock, today, monday, week_dates, sheet, records, events, text,
                   raised, dateutil_out, parse_in, parse_out>>

\* what the Slack client raises that is no SlackApiError (the request never
\* got an answer, the client could not be used)
OtherErrors == {"URLError", "TimeoutError", "SlackRequestError"}

\* lines 250-253: chat_postMessage raises something else; no except clause
\* takes it, neither here nor in main
PostOtherError ==
    /\ pc = "post"
    /\ console' = Append(console, Out("posting", <<>>))
    /\ calls' = calls \o <<"post_to_slack", "chat_postMessage">>
    /\ \E e \in OtherErrors : raised' = Some(e)
    /\ pc' = "done"
    /\ UNCHANGED <<clock, today, monday, week_dates, sheet, records, events, text,
                   dateutil_out, parse_in, parse_out>>

\* parse_date_str(date_str, reference_year)
ParseDateStr ==
    /\ pc = "parse"
    /\ parse_out' = parse_date_str(parse_in.date_str, parse_in.reference_year, dateutil_out)
    /\ pc' = "parsed"
    /\ UNCHANGED <<clock, today, monday, week_dates, sheet, records, events, text,
                   console, calls, raised, dateutil_out, parse_in>>

----------------------------------------------------------------------------
(* The inputs the specifications draw from                                 *)

\* every sequence over S of length at most n
SeqsUpTo(S, n) == UNION { [1..k -> S] : k \in 0..n }

\* cell texts
TxtA == <<"A">>
TxtB == <<"B">>
TxtX == <<"X">>
Garbage == <<"x">>
Jul1 == <<"7", "/", "1">>
Jul3 == <<"7", "/", "3">>
Jul3Padded == <<" ", "0", "7", "-", "0", "3", "-", "2", "3", " ">>
Dec31 == <<"1", "2", "/", "3", "1">>
Jan1 == <<"1", "/", "1">>
Feb30 == <<"2", "/", "3", "0">>
Jul2 == <<"7", "/", "2">>
NineOClock == <<"9", ":", "0", "0">>
ZemiSpaced == <<" ", "ze", "mi", "wsp">>

\* a row of a sheet whose columns carry the first header of every alias list
RowA(d, ty, tm, c, p, a) ==
    [hizuke |-> d, yotei_taipu |-> ty, tesuto_jikan |-> tm, naiyou |-> c, tantou |-> p,
     kesseki_yotei |-> a]

\* a row of a sheet whose first-choice columns are empty, the value standing
\* in a later alias, and a still later alias holding something else
RowB(d, ty, tm, c, p, a) ==
    [hizuke |-> <<>>, date |-> d, Date |-> Jul2,
     yotei_taipu |-> <<>>, taipu |-> ty, type |-> Zemi,
     tesuto_jikan |-> <<>>, Time |-> tm,
     content |-> c, person |-> p, absent |-> a]

MkRow(layout, d, ty, tm, c, p, a) ==
    IF layout = "A" THEN RowA(d, ty, tm, c, p, a) ELSE RowB(d, ty, tm, c, p, a)

Layouts == {"A", "B"}

DateCells == {<<>>, Jul3, Jul3Padded, Dec31, Jan1, Garbage, Feb30}
TypeCells == {<<>>, Zemi, ZemiSpaced, Garbage}
TimeCells == {<<>>, UsualTime}

\* <<date cell, type cell, time cell>> of the rows the classifier is run on
ClassifyCells ==
    (DateCells \X {<<Garbage, <<>>>>, <<Zemi, UsualTime>>})
    \cup ({Jul3, Dec31} \X (TypeCells \X TimeCells))

ClassifyRows(layout) ==
    { MkRow(layout, c[1], c[2][1], c[2][2], TxtA, TxtX, <<" ", "A">>) : c \in ClassifyCells }

\* the rows the formatter's events are made from
FormatRows ==
    { RowA(d, tt[1], tt[2], x[1], x[2], x[3]) :
        d \in {Jul1, Jul3},
        tt \in {<<Zemi, UsualTime>>, <<Zemi, NineOClock>>, <<<<>>, <<>>>>, <<Garbage, UsualTime>>},
        x \in {<<TxtA, TxtX, <<>>>>, <<TxtB, <<>>, TxtA>>} }

MainRows ==
    { RowA(Jul3, Zemi, UsualTime, TxtA, TxtX, <<>>),
      RowA(Jul1, Garbage, <<>>, TxtB, <<>>, <<>>),
      RowA(Dec31, Zemi, <<>>, TxtA, TxtX, <<>>) }

\* the Mondays the classifier is run for: a week inside a year, and the week
\* of 2024-12-30 .. 2025-01-05
ClassifyMondays == {Date(2024, 7, 1), Date(2024, 12, 30)}

FallbackResults == {None, Some(Date(2024, 7, 4))}

ParseYears == {2023, 2024}

\* the text of month m and day d: zero-padded or not, after lead, split by sep,
\* followed by tail
MDText(lead, pad, m, sep, d, tail) ==
    LET two(n) == IF pad /\ n < 10 THEN <<"0">> \o str_of(n) ELSE str_of(n)
    IN  lead \o two(m) \o <<sep>> \o two(d) \o tail

YearTails == {<<"/", "2", "3">>, <<"-", "2", "0", "2", "3">>, <<"/", "9", "9", "9">>}

ParseInputs ==
    { [date_str |-> MDText(lead, pad, m, sep, d, tail), reference_year |-> y,
       lead |-> lead, m |-> m, d |-> d, tail |-> tail] :
        lead \in {<<>>, <<" ">>}, pad \in BOOLEAN, m \in 0..13, sep \in {"/", "-"},
        d \in 0..32, tail \in YearTails \cup {<<>>}, y \in ParseYears }
    \cup
    { [date_str |-> t, reference_year |-> y, lead |-> <<>>, m |-> 0, d |-> 0, tail |-> <<>>] :
        t \in {<<>>, Garbage, <<"2", "0", "2", "4", "/", "7", "/", "3">>}, y \in ParseYears }

----------------------------------------------------------------------------
(* The specifications                                                      *)

Blank ==
    /\ today = None
    /\ monday = None
    /\ week_dates = {}
    /\ sheet = <<>>
    /\ records = <<>>
    /\ events = <<>>
    /\ text = None
    /\ console = <<>>
    /\ calls = <<>>
    /\ raised = None
    /\ parse_in = None
    /\ parse_out = None

\* main, from its first line
Init ==
    /\ pc = "start"
    /\ clock \in [ord : toordinal(Date(2024, 6, 29))..toordinal(Date(2024, 7, 8)), hour : {0, 15}]
    /\ \E s \in SeqsUpTo(MainRows, MaxRows) : sheet = s
    /\ dateutil_out = None
    /\ today = None /\ monday = None /\ week_dates = {} /\ records = <<>>
    /\ events = <<>> /\ text = None /\ console = <<>> /\ calls = <<>>
    /\ raised = None /\ parse_in = None /\ parse_out = None

Next ==
    \/ GetToday
    \/ GetMonday
    \/ BuildWeek
    \/ LoadOk
    \/ LoadFail
    \/ FindWeekEvents
    \/ FormatSchedule
    \/ PostNotConfigured
    \/ PostOk
    \/ PostSlackApiError
    \/ PostOtherError

Spec == Init /\ [][Next]_vars

\* the week window, for every instant of the clock's range
InitWeek ==
    /\ pc = "start"
    /\ clock \in [ord : FirstClockDay..(FirstClockDay + ClockDays - 1), hour : {0, 14, 15, 23}]
    /\ dateutil_out = None
    /\ Blank

NextWeek == GetToday \/ GetMonday \/ BuildWeek

SpecWeek == InitWeek /\ [][NextWeek]_vars

\* parse_date_str, for every input of ParseInputs
InitParse ==
    /\ pc = "parse"
    /\ clock = None
    /\ dateutil_out \in FallbackResults
    /\ today = None /\ monday = None /\ week_dates = {} /\ sheet = <<>> /\ records = <<>>
    /\ events = <<>> /\ text = None /\ console = <<>> /\ calls = <<>> /\ raised = None
    /\ parse_in \in ParseInputs
    /\ parse_out = None

NextParse == ParseDateStr

SpecParse == InitParse /\ [][NextParse]_vars

\* find_week_events, as main calls it: the week built from a Monday, the
\* records those of a sheet
InitClassify ==
    /\ pc = "find"
    /\ clock = None
    /\ today = None
    /\ monday \in ClassifyMondays
    /\ week_dates = build_week_dates(monday)
    /\ \E layout \in Layouts : \E s \in SeqsUpTo(ClassifyRows(layout), MaxRows) :
           sheet = s /\ records = s
    /\ dateutil_out \in FallbackResults
    /\ events = <<>> /\ text = None /\ console = <<>>
    /\ calls = <<"load_public_sheet_records">>
    /\ raised = None /\ parse_in = None /\ parse_out = None

NextClassify == FindWeekEvents

SpecClassify == InitClassify /\ [][NextClassify]_vars

\* format_schedule, on the events find_week_events makes of a sheet
InitFormat ==
    /\ pc = "find"
    /\ clock = None
    /\ today = None
    /\ monday = Date(2024, 7, 1)
    /\ week_dates = build_week_dates(monday)
    /\ \E s \in SeqsUpTo(FormatRows, MaxRows + 1) : sheet = s /\ records = s
    /\ dateutil_out = None
    /\ events = <<>> /\ text = None /\ console = <<>>
    /\ calls = <<"load_public_sheet_records">>
    /\ raised = None /\ parse_in = None /\ parse_out = None

NextFormat == FindWeekEvents \/ FormatSchedule

SpecFormat == InitFormat /\ [][NextFormat]_vars

----------------------------------------------------------------------------
(* The claims                                                              *)

\* 2024-07-01 is a Monday
KnownMonday == Date(2024, 7, 1)

\* C1: once main has built the week, monday is a Monday, it is the date of
\* today or at most 6 days before it, and week_dates holds exactly the 7
\* dates monday .. monday+6, the date of today among them.
C1_WeekWindow ==
    pc = "load" =>
        /\ weekday(monday) = 0
        /\ (toordinal(monday) - toordinal(KnownMonday)) % 7 = 0
        /\ date_le(monday, today.date)
        /\ toordinal(today.date) - toordinal(monday) \in 0..6
        /\ Cardinality(week_dates) = 7
        /\ week_dates = { fromordinal(toordinal(monday) + i) : i \in 0..6 }
        /\ today.date \in week_dates

\* a Wednesday whose week began in the year before
C1_Witness ==
    /\ pc = "load"
    /\ today.date = Date(2025, 1, 1)
    /\ monday = Date(2024, 12, 30)
    /\ Date(2025, 1, 5) \in week_dates

\* the cells of a row, as the claims read them
RawLabel(row) == first_of(row, type_keys)
Label(row) == strip(RawLabel(row))
TimeCell(row) == first_of(row, time_keys)
DateCell(row) == first_of(row, date_keys)
\* the date the row's date cell stands for, in the year of the week's Monday
RowDate(row) ==
    IF DateCell(row) = <<>> THEN None
    ELSE parse_date_str(strip(DateCell(row)), min_date(week_dates).year, dateutil_out)
InWeekRow(row) == RowDate(row) # None /\ RowDate(row)[1] \in week_dates
EventsOfRow(row) == { k \in 1..Len(events) : events[k].row = row }

\* C2: find_week_events returns no seminar event without a time, and a row
\* with the seminar label and an empty time cell is behind no event.
C2_SeminarHasTime ==
    pc = "format" =>
        /\ \A k \in 1..Len(events) :
               events[k].type = Zemi => events[k].time # None /\ events[k].time[1] # <<>>
        /\ \A i \in 1..Len(records) :
               (Label(records[i]) = Zemi /\ TimeCell(records[i]) = <<>>)
                   => EventsOfRow(records[i]) = {}

\* an in-week seminar row without a time is dropped, the seminar row after it
\* is kept
C2_Witness ==
    /\ pc = "format"
    /\ Len(records) = 2
    /\ InWeekRow(records[1])
    /\ Label(records[1]) = Zemi
    /\ TimeCell(records[1]) = <<>>
    /\ Len(events) = 1
    /\ events[1].type = Zemi
    /\ events[1].row = records[2]

Count(seq, x) == Cardinality({ i \in 1..Len(seq) : seq[i] = x })
Printed(what) == \E i \in 1..Len(console) : console[i].what = what
LoadFailed == Printed("load_failed")

\* C4: main loads at most once and posts at most once, and posts only after
\* a load that returned; after a load that raised, main has ended, with no
\* events looked for, no digest made or printed, and nothing posted.
C4_FetchFailureAborts ==
    /\ Count(calls, "load_public_sheet_records") <= 1
    /\ Count(calls, "chat_postMessage") <= 1
    /\ Count(calls, "chat_postMessage") = 1 =>
           /\ ~LoadFailed
           /\ \E i, j \in 1..Len(calls) :
                  /\ i < j
                  /\ calls[i] = "load_public_sheet_records"
                  /\ calls[j] = "chat_postMessage"
    /\ LoadFailed =>
           /\ pc = "done"
           /\ calls = <<"load_public_sheet_records">>
           /\ ~Printed("text")
           /\ events = <<>>
           /\ text = None
           /\ raised = None

\* the load raised with rows in the sheet, and main ended there
C4_Witness ==
    /\ pc = "done"
    /\ LoadFailed
    /\ sheet # <<>>
    /\ Len(console) = 1

\* C5: main, once the load returned and the run ended, has let no exception
\* out, however the post went, and has printed the digest.
C5_PublishFailureCaught ==
    (pc = "done" /\ ~LoadFailed) =>
        /\ raised = None
        /\ \E i \in 1..Len(console) :
               console[i].what = "text" /\ console[i].lines = text[1]

\* the texts C6 is about: M/D or M-D of a date of the reference year, with a
\* year behind it or not
C6_Covered(in) ==
    /\ in.lead = <<>>
    /\ valid_date(in.reference_year, in.m, in.d)

\* C6: parse_date_str gives the date (reference year, M, D) for the text of a
\* valid month M and day D, whatever year follows them.
C6_MonthDayParsed ==
    (pc = "parsed" /\ C6_Covered(parse_in)) =>
        parse_out = Some(Date(parse_in.reference_year, parse_in.m, parse_in.d))

\* 02-29-2023 read in the leap year 2024
C6_Witness ==
    /\ pc = "parsed"
    /\ parse_in.date_str = <<"0", "2", "-", "2", "9", "-", "2", "0", "2", "3">>
    /\ parse_in.reference_year = 2024
    /\ parse_out = Some(Date(2024, 2, 29))

Injections(n) == { f \in [1..n -> 1..n] : \A i, j \in 1..n : f[i] = f[j] => i = j }

RECURSIVE BlocksOf(_, _, _)
\* the lines of events p[k], p[k+1], ...
BlocksOf(evs, p, k) ==
    IF k > Len(evs) THEN <<>> ELSE event_lines(evs[p[k]]) \o BlocksOf(evs, p, k + 1)

TimeText(ev) == IF ev.time = None THEN <<>> ELSE ev.time[1]

\* C7: the digest of a non-empty event list holds the events' lines in the
\* order of the stable sort by (date, time text, an absent time as ''): no
\* event stands before one of an earlier date, nor before one of its date and
\* a smaller time text; an event without time stands before the events of its
\* date that have one; events of equal date and time text stand in the order
\* they had.
C7_StableSortedOrder ==
    (pc = "post" /\ events # <<>>) =>
        \E p \in Injections(Len(events)) :
            /\ text[1] = <<header_line(monday)>> \o BlocksOf(events, p, 1)
            /\ \A i, j \in 1..Len(events) :
                   i < j =>
                       LET a == events[p[i]]
                           b == events[p[j]]
                       IN  /\ ~date_lt(b.date, a.date)
                           /\ a.date = b.date => ~str_lt(TimeText(b), TimeText(a))
                           /\ (a.date = b.date /\ b.time = None) => a.time = None
                           /\ (a.date = b.date /\ TimeText(a) = TimeText(b)) => p[i] < p[j]

\* three events of one date come in as 13:00-14:30, no time, 9:00 and go out
\* as no time, 13:00-14:30, 9:00
C7_Witness ==
    /\ pc = "post"
    /\ Len(events) = 3
    /\ events[1].date = events[2].date
    /\ events[2].date = events[3].date
    /\ events[1].time = Some(UsualTime)
    /\ events[2].time = None
    /\ events[3].time = Some(NineOClock)
    /\ text[1] = <<header_line(monday)>> \o event_lines(events[2])
                     \o event_lines(events[1]) \o event_lines(events[3])

\* the lines C8 gives an event
C8_Block(ev) ==
    LET first == Line("event", <<ev.date.month, ev.date.day>>,
                      weekday_map[((toordinal(ev.date) - toordinal(KnownMonday)) % 7) + 1],
                      ev.content)
    IN  IF ev.type # Zemi THEN <<first>>
        ELSE <<first>>
             \o (IF ev.person # <<>> THEN <<Line("person", <<>>, "", ev.person)>> ELSE <<>>)
             \o <<Line("time", <<>>, "", ev.time[1])>>
             \o (IF ev.absent_display = None THEN <<Line("absent_none", <<>>, "", <<>>)>>
                 ELSE <<Line("absent", <<>>, "", ev.absent_display[1])>>)
             \o (IF ev.time[1] # UsualTime THEN <<Line("warning", <<>>, "", <<>>)>> ELSE <<>>)

RECURSIVE C8_Blocks(_)
C8_Blocks(evs) == IF evs = <<>> THEN <<>> ELSE C8_Block(Head(evs)) \o C8_Blocks(Tail(evs))

\* C8: in the digest of a non-empty event list an event that is no seminar
\* has one line, M/D(weekday): content, whatever else it carries; a seminar
\* has that line, then the person line if it has a person, the time line, one
\* absence line (the "none" line without absentees), and the warning line if
\* and only if its time is not 13:00-14:30.  2024-07-03 is written 7/3 with
\* the Wednesday name sui.
C8_LinesPerEvent ==
    (pc = "post" /\ events # <<>>) =>
        /\ text[1] = <<header_line(monday)>> \o C8_Blocks(sorted_events(events))
        /\ \A i \in 1..Len(text[1]) :
               (text[1][i].kind = "event" /\ text[1][i].nums = <<7, 3>>)
                   => text[1][i].wd = "sui"

\* a seminar at 9:00 with its warning, and an event of the other type that
\* has a time, a person and no bullets
C8_Witness ==
    /\ pc = "post"
    /\ Len(events) = 2
    /\ events[1].type = Zemi /\ events[1].time = Some(NineOClock)
    /\ events[1].date = Date(2024, 7, 1)
    /\ events[2].type = JuuyouNittei /\ events[2].time = Some(UsualTime)
    /\ events[2].person = TxtX
    /\ events[2].date = Date(2024, 7, 3)
    /\ Len(text[1]) = 7
    /\ text[1][6].kind = "warning"
    /\ text[1][7].kind = "event"

\* C9: the events are those of rows whose date is in the week, each row
\* behind at most one, in the order of the rows: there is a strictly rising
\* map from the events to the rows they were made of.  A row whose date cell
\* is empty, unreadable or outside the week is behind no event.
C9_RowOrderSubsequence ==
    pc = "format" =>
        /\ \E f \in [1..Len(events) -> 1..Len(records)] :
               /\ \A j, k \in 1..Len(events) : j < k => f[j] < f[k]
               /\ \A k \in 1..Len(events) :
                      /\ events[k].row = records[f[k]]
                      /\ events[k].date \in week_dates
                      /\ RowDate(records[f[k]]) = Some(events[k].date)
        /\ \A i \in 1..Len(records) :
               ~InWeekRow(records[i]) => EventsOfRow(records[i]) = {}

\* two rows give two events, the later date first; a third kind of row, with
\* an unreadable date, is met in other states
C9_Witness ==
    /\ pc = "format"
    /\ Len(records) = 2
    /\ Len(events) = 2
    /\ events[1].date = Date(2024, 7, 3)
    /\ events[2].date = Date(2024, 7, 2)
    /\ events[1].row = records[1]
    /\ events[2].row = records[2]

\* the text M/D of a date, as line 210 writes it
MonthDay(d) == str_of(d.month) \o <<"/">> \o str_of(d.day)

\* C10: for every date of the week, a row whose date cell is the M/D text of
\* that date, and which is no seminar row without a time, is behind an event
\* of that date.
C10_EveryWeekDayReachable ==
    pc = "format" =>
        \A i \in 1..Len(records) : \A d \in week_dates :
            (/\ DateCell(records[i]) = MonthDay(d)
             /\ ~(Label(records[i]) = Zemi /\ TimeCell(records[i]) = <<>>))
                => \E k \in EventsOfRow(records[i]) : events[k].date = d

====
